---- MODULE Spec2Model ----
(***************************************************************************)
(* A model of src/app.py, the UPS print-return-label microservice.         *)
(*                                                                         *)
(* One request is handled at a time.  A handler is cut at the calls it     *)
(* makes to the outside world (the identity endpoint, the shipment         *)
(* endpoint, the file system); everything between two such calls is one    *)
(* step.  Text that the code inspects character by character (names,       *)
(* references, the promo code) is a sequence of one-character strings;     *)
(* text that is only copied is a TLA+ string.  A JSON object is a record   *)
(* whose DOMAIN is the set of keys that are present.                       *)
(***************************************************************************)
EXTENDS Integers, Sequences, FiniteSets, TLC

VARIABLES
    SHIPPER_NO,     \* app.py:34   UPS_SHIPPER_NUMBER, "" when unset
    PROMO_CODE,     \* app.py:35   UPS_PROMO_CODE
    now,            \* wall clock, seconds (environment)
    issued,         \* tokens the identity endpoint has issued: <<[at, expires_in]>>
    pc,             \* position of the handler
    route,          \* route of the request being handled
    request,        \* flask.request: parsed JSON body and query arguments
    ship_request,   \* app.py:186  local ship_request
    netlog,         \* outbound HTTP calls issued by the current request
    carrier,        \* app.py:195  local resp, the carrier's answer
    label_pdf,      \* app.py:207  local label_pdf
    tracking,       \* app.py:204  local tracking
    fault,          \* file-system fault the environment injects in the composition
    created,        \* temporary files the current request has created
    tmp_files,      \* of those, the files still on disk
    response        \* what the handler returned to the caller

vars == <<SHIPPER_NO, PROMO_CODE, now, issued, pc, route, request, ship_request,
          netlog, carrier, label_pdf, tracking, fault, created, tmp_files, response>>

(***************************************************************************)
(* Bounds of the model.                                                    *)
(***************************************************************************)
MaxTime == 1
MaxIssued == 2
LongLen == 36

(***************************************************************************)
(* Text.                                                                   *)
(***************************************************************************)
Letters ==
    {"A","B","C","D","E","F","G","H","I","J","K","L","M",
     "N","O","P","Q","R","S","T","U","V","W","X","Y","Z",
     "a","b","c","d","e","f","g","h","i","j","k","l","m",
     "n","o","p","q","r","s","t","u","v","w","x","y","z"}

Digits == {"0","1","2","3","4","5","6","7","8","9"}

\* The complement of the class [^A-Za-z0-9 \-._/].
RefAllowedChars == Letters \cup Digits \cup {" ", "-", ".", "_", "/"}

\* Characters str.strip() removes.
Whitespace == {" ", "\t"}

IsRefAllowed(c) == c \in RefAllowedChars

\* _REF_ALLOWED.sub("", s)
RefSub(s) == SelectSeq(s, IsRefAllowed)

RECURSIVE LStrip(_)
LStrip(s) == IF s # <<>> /\ Head(s) \in Whitespace THEN LStrip(Tail(s)) ELSE s

RECURSIVE RStrip(_)
RStrip(s) ==
    IF s # <<>> /\ s[Len(s)] \in Whitespace THEN RStrip(SubSeq(s, 1, Len(s) - 1)) ELSE s

\* str.strip()
Strip(s) == RStrip(LStrip(s))

\* s[:n]
Prefix(s, n) == IF Len(s) <= n THEN s ELSE SubSeq(s, 1, n)

REF_MAXLEN == 35

\* _clean_ref(s, maxlen=35); a missing or null s is the empty text (s or "").
clean_ref(s) == Prefix(Strip(RefSub(s)), REF_MAXLEN)

RECURSIVE Repeat(_, _)
Repeat(c, n) == IF n <= 0 THEN <<>> ELSE <<c>> \o Repeat(c, n - 1)

\* dict.get(k, default)
Get(obj, k, default) == IF k \in DOMAIN obj THEN obj[k] ELSE default

\* A dict with no key.
EmptyDict == [k \in {} |-> ""]

\* All dicts with at most the key k, its value drawn from V.
Opt(k, V) == {EmptyDict} \cup {[x \in {k} |-> v] : v \in V}

(***************************************************************************)
(* Configuration read from the environment when the module is loaded.      *)
(***************************************************************************)
UPS_ENV == "prod"

UPS_BASE == IF UPS_ENV = "sandbox" THEN "https://wwwcie.ups.com" ELSE "https://onlinetools.ups.com"

DefaultPromo == <<"E","I","G","S","H","I","P","S","U","P","S">>

\* UPS_SHIPPER_NUMBER unset, or set.
ShipperValues == {"", "1Y2345"}

\* UPS_PROMO_CODE set to the empty text, or unset (the default applies).
PromoValues == {<<>>, DefaultPromo}

(***************************************************************************)
(* Requests.  A request is described by nine slots; the requests handled   *)
(* are the base request and those that differ from it in one slot.         *)
(***************************************************************************)
LongName == <<"D","r",".",":"," ">> \o Repeat("x", LongLen) \o <<" ","#","y">>

LongRef == <<" ","P","O","#"," ","7","/","a",":"," ">> \o Repeat("9", LongLen) \o <<"!">>

JaneAddress ==
    [addr1 |-> "1 Main St", city |-> "Phoenix", state |-> "AZ", zip |-> "85001",
     country |-> "CA"]

ShapeSlot == {"dict", "absent", "null", "str"}
NameSlot == Opt("name", {<<"J","o">>, <<" ">>, <<"#",":">>, LongName})
PhoneSlot == Opt("phone", {<<"5","5","5">>, <<" ">>})
AddrSlot == {JaneAddress, EmptyDict}
ReferenceSlot == Opt("reference", {<<" ","P","O",":","7","/","a"," ">>, <<":",":">>, LongRef})
FormatSlot == Opt("format", {"pdf", "gif", "PNG"})
ModeSlot == Opt("mode", {"outbound", "return", "sideways"})
WeightSlot == Opt("weight_lbs", {5})
JsonSlot == Opt("json", {"1", "0"})

Slots ==
    ShapeSlot \X NameSlot \X PhoneSlot \X AddrSlot \X ReferenceSlot \X FormatSlot
        \X ModeSlot \X WeightSlot \X JsonSlot

BaseSlots ==
    <<"dict", [name |-> <<"J","o">>], EmptyDict, JaneAddress, EmptyDict, EmptyDict,
      EmptyDict, EmptyDict, EmptyDict>>

NDiff(t) == Cardinality({i \in 1..9 : t[i] # BaseSlots[i]})

\* The value of the body's "to" key, tagged with its JSON type.
ToValue(t) ==
    IF t[1] = "dict" THEN [t |-> "dict", v |-> t[2] @@ t[3] @@ t[4]]
    ELSE IF t[1] = "null" THEN [t |-> "null", v |-> EmptyDict]
    ELSE [t |-> "str", v |-> EmptyDict]

MakeRequest(t) ==
    [body |-> (IF t[1] = "absent" THEN EmptyDict ELSE [to |-> ToValue(t)])
                  @@ t[5] @@ t[6] @@ t[7] @@ t[8],
     args |-> t[9]]

Requests == {MakeRequest(t) : t \in {u \in Slots : NDiff(u) <= 1}}

(***************************************************************************)
(* create_label, lines 113-192: the shipment request.                      *)
(***************************************************************************)
\* str.upper() on the format values a request can carry.
Upper(s) == IF s = "pdf" THEN "PDF" ELSE IF s = "gif" THEN "GIF" ELSE s

Fmt(body) ==
    LET f == Upper(IF Get(body, "format", "") = "" THEN "PDF" ELSE body.format)
    IN  IF f \notin {"PDF", "GIF"} THEN "PDF" ELSE f

SenderName(to_json) ==
    LET n == Strip(Get(to_json, "name", <<>>))
    IN  IF n = <<>> THEN <<"S","e","n","d","e","r">> ELSE n

SenderAddr(to_json) ==
    <<Get(to_json, "addr1", ""), ", ", Get(to_json, "city", ""), ", ",
      Get(to_json, "state", ""), " ", Get(to_json, "zip", "")>>

SenderPhone(to_json) == Strip(Get(to_json, "phone", <<>>))

ShipFromOf(to_json) ==
    [Name |-> SenderName(to_json),
     CompanyName |-> SenderName(to_json),
     AttentionName |-> SenderName(to_json),
     Address |-> [AddressLine |-> <<Get(to_json, "addr1", "")>>,
                  City |-> Get(to_json, "city", ""),
                  StateProvinceCode |-> Get(to_json, "state", ""),
                  PostalCode |-> Get(to_json, "zip", ""),
                  CountryCode |-> Get(to_json, "country", "US")]]
    @@ (IF SenderPhone(to_json) # <<>>
        THEN [Phone |-> [Number |-> SenderPhone(to_json)]]
        ELSE EmptyDict)

LAB_NAME == <<"First Impressions Dental Lab">>

lab_addr ==
    [AddressLine |-> <<"700 North Neely Street, Ste. #17">>,
     City |-> "Gilbert",
     StateProvinceCode |-> "AZ",
     PostalCode |-> "85233",
     CountryCode |-> "US"]

LabShipTo == [Name |-> LAB_NAME, Address |-> lab_addr]

References(body, sender_name, promo_code) ==
    LET user_ref == clean_ref(Get(body, "reference", <<>>))
        po == [Code |-> "PO",
               Value |-> IF user_ref # <<>> THEN user_ref ELSE clean_ref(sender_name)]
        promo_ref == clean_ref(<<"P","r","o","m","o"," ">> \o promo_code)
    IN  IF promo_code # <<>> /\ promo_ref # <<>>
        THEN <<po, [Code |-> "PM", Value |-> promo_ref]>>
        ELSE <<po>>

ShipmentOf(body, shipper_no, promo_code, ship_from, ship_to) ==
    [Description |-> "Dental Products",
     Shipper |-> [ShipperNumber |-> shipper_no,
                  Name |-> LAB_NAME,
                  Address |-> lab_addr],
     PaymentInformation |->
         [ShipmentCharge |-> [Type |-> "01",
                              BillShipper |-> [AccountNumber |-> shipper_no]]],
     Service |-> [Code |-> "03"],
     ShipmentServiceOptions |-> [ReturnService |-> [Code |-> "02"]],
     ShipFrom |-> ship_from,
     ShipTo |-> ship_to,
     Package |->
         [Packaging |-> [Code |-> "02"],
          PackageWeight |-> [UnitOfMeasurement |-> [Code |-> "LBS"],
                             Weight |-> ToString(Get(body, "weight_lbs", 1))],
          Dimensions |-> [UnitOfMeasurement |-> [Code |-> "IN"],
                          Length |-> "6", Width |-> "5", Height |-> "5"],
          PackageServiceOptions |->
              [DeclaredValue |-> [CurrencyCode |-> "USD", MonetaryValue |-> "100"]],
          ReferenceNumber |-> References(body, SenderName(body.to.v), promo_code)]]

\* A builder that honours body.mode: the business ships to the caller unless
\* the mode is "return".
BuildShipRequestByMode(body, shipper_no, promo_code) ==
    LET outbound == Get(body, "mode", "outbound") # "return"
    IN  [ShipmentRequest |->
            [Request |-> [RequestOption |-> "nonvalidate"],
             Shipment |-> ShipmentOf(body, shipper_no, promo_code,
                                     IF outbound THEN LabShipTo ELSE ShipFromOf(body.to.v),
                                     IF outbound THEN ShipFromOf(body.to.v) ELSE LabShipTo),
             LabelSpecification |-> [LabelImageFormat |-> [Code |-> Fmt(body)]]]]

\* The body never reads "mode" (nor "service_code").
BuildShipRequest(body, shipper_no, promo_code) ==
    [ShipmentRequest |->
        [Request |-> [RequestOption |-> "nonvalidate"],
         Shipment |-> ShipmentOf(body, shipper_no, promo_code,
                                 ShipFromOf(body.to.v), LabShipTo),
         LabelSpecification |-> [LabelImageFormat |-> [Code |-> Fmt(body)]]]]

\* No shipment request has been built.
NoShipRequest == EmptyDict

(***************************************************************************)
(* Values handlers exchange with the outside world.                        *)
(***************************************************************************)
\* An HTTP answer: transport is "ok", or "timeout" when requests.post raises.
Http(transport, status, text, json) ==
    [transport |-> transport, status |-> status, text |-> text, json |-> json]

NoHttp == Http("none", 0, "", EmptyDict)

NoRequest == [body |-> EmptyDict, args |-> EmptyDict]

NoBytes == EmptyDict

NoResponse == [status |-> 0]

\* base64.b64encode / base64.b64decode
b64encode(bytes) == [base64 |-> bytes]

b64decode(text) == text.base64

\* ({"ok": False, "error": str(e)}, status)
ErrorResponse(status, error) ==
    [status |-> status, kind |-> "json", body |-> [ok |-> FALSE, error |-> error]]

\* What raising leaves behind: the text of the exception.
Raised(error) == [raised |-> TRUE, error |-> error]

(***************************************************************************)
(* get_token, lines 45-59.                                                 *)
(***************************************************************************)
IdentityResponses ==
    {Http("timeout", 0, "", EmptyDict),
     Http("ok", 401, "Unauthorized", EmptyDict),
     Http("ok", 200, "", [access_token |-> "tokA", expires_in |-> 61]),
     Http("ok", 200, "", [access_token |-> "tokB"]),
     Http("ok", 200, "", [expires_in |-> 61])}

\* A check that lets client errors (4xx) through.
TokenRejectedFrom500(status) == status >= 500

\* r.status_code >= 300
TokenRejected(status) == status >= 300

\* What get_token returns, or raises, on the identity endpoint's answer r.
GetTokenResult(r) ==
    IF r.transport # "ok" THEN Raised(<<"ReadTimeout">>)
    ELSE IF TokenRejected(r.status)
    THEN Raised(<<"UPS token HTTP ", ToString(r.status), ": ", r.text>>)
    ELSE IF "access_token" \notin DOMAIN r.json THEN Raised(<<"'access_token'">>)
    ELSE [raised |-> FALSE, tok |-> r.json.access_token,
          ttl |-> Get(r.json, "expires_in", 0)]

\* The record of one HTTP call in netlog.
Call(to, r) == [to |-> to, ok |-> r.transport = "ok" /\ r.status < 300, status |-> r.status]

\* The identity endpoint issues a token with every successful exchange.
Issue(r) ==
    IF r.transport = "ok" /\ r.status < 300 /\ "access_token" \in DOMAIN r.json
    THEN Append(issued, [at |-> now, expires_in |-> Get(r.json, "expires_in", 0)])
    ELSE issued

\* A get_token that keeps the last token and reuses it until 60 s before it expires.
get_token_cached(r) ==
    IF issued # <<>>
       /\ now < issued[Len(issued)].at + issued[Len(issued)].expires_in - 60
    THEN netlog' = netlog /\ issued' = issued
    ELSE netlog' = Append(netlog, Call("identity", r)) /\ issued' = Issue(r)

\* The effect of get_token: one POST to the identity endpoint, whatever was
\* fetched before.
get_token(r) ==
    /\ netlog' = Append(netlog, Call("identity", r))
    /\ issued' = Issue(r)

(***************************************************************************)
(* The shipment call and its answer, lines 194-207.                        *)
(***************************************************************************)
Image(fmt, content) == [format |-> fmt, content |-> content]

Dict(v) == [t |-> "dict", v |-> v]

List(items) == [t |-> "list", items |-> items]

JsonNull == [t |-> "null", v |-> EmptyDict]

PkgA(fmt) ==
    Dict([TrackingNumber |-> "1Z001",
          ShippingLabel |-> [GraphicImage |-> b64encode(Image(fmt, "label-A"))]])

PkgB(fmt) == Dict([ShippingLabel |-> [GraphicImage |-> b64encode(Image(fmt, "label-B"))]])

PkgNoLabel == Dict([TrackingNumber |-> "1Z003"])

ShipmentJson(results) == [ShipmentResponse |-> [ShipmentResults |-> results]]

\* The carrier answers in the label format the request asked for.
CarrierResponses(sr) ==
    LET fmt == sr.ShipmentRequest.LabelSpecification.LabelImageFormat.Code
        ok(pr) == Http("ok", 200, "", ShipmentJson([PackageResults |-> pr]))
    IN  {Http("timeout", 0, "", EmptyDict),
         Http("ok", 300, "Multiple Choices", EmptyDict),
         Http("ok", 400, "Invalid Shipment", EmptyDict),
         Http("ok", 200, "", ShipmentJson([Disclaimer |-> "none"])),
         ok(PkgA(fmt)), ok(PkgB(fmt)), ok(PkgNoLabel),
         ok(List(<<>>)), ok(List(<<PkgA(fmt)>>)), ok(List(<<PkgB(fmt)>>)),
         ok(List(<<PkgA(fmt), PkgB(fmt)>>)), ok(List(<<PkgB(fmt), PkgA(fmt)>>))}

\* A check that is off by one at the boundary.
CarrierRejectedAbove300(status) == status > 300

\* resp.status_code >= 300
CarrierRejected(status) == status >= 300

\* A normalisation that takes the last element of a list.
NormalizePkgLast(pkg) == IF pkg.t = "list" THEN pkg.items[Len(pkg.items)] ELSE pkg

\* if isinstance(pkg, list): pkg = pkg[0]
NormalizePkg(pkg) == IF pkg.t = "list" THEN pkg.items[1] ELSE pkg

\* Lines 199-204 on the decoded body of a successful answer.
Extract(data) ==
    IF "ShipmentResponse" \notin DOMAIN data THEN Raised(<<"'ShipmentResponse'">>)
    ELSE LET pkg0 == Get(data.ShipmentResponse.ShipmentResults, "PackageResults", JsonNull)
         IN  IF pkg0.t = "list" /\ pkg0.items = <<>> THEN Raised(<<"list index out of range">>)
             ELSE LET pkg == NormalizePkg(pkg0)
                  IN  IF pkg.t # "dict"
                      THEN Raised(<<"'NoneType' object is not subscriptable">>)
                      ELSE IF "ShippingLabel" \notin DOMAIN pkg.v
                      THEN Raised(<<"'ShippingLabel'">>)
                      ELSE [raised |-> FALSE,
                            label_b64 |-> pkg.v.ShippingLabel.GraphicImage,
                            tracking |-> Get(pkg.v, "TrackingNumber", "")]

\* A shipment call that is repeated once when it fails.
post_ship_retry(r) ==
    netlog' = IF r.transport = "ok" /\ r.status < 300
              THEN Append(netlog, Call("ship", r))
              ELSE Append(Append(netlog, Call("ship", r)), Call("ship", r))

\* requests.post(url, headers=..., json=ship_request, timeout=45): one call.
post_ship(r) == netlog' = Append(netlog, Call("ship", r))

(***************************************************************************)
(* Composition of the label, lines 209-259.                                *)
(***************************************************************************)
\* Where the file system can fail the composition.
Faults ==
    {"none", "create_label", "create_overlay", "create_merged",
     "write_label", "render_overlay", "write_merged"}

CreateFaults == {"create_label", "create_overlay", "create_merged"}

\* Lines 209-211: the files made before NamedTemporaryFile raises, if it does.
TempFilesCreated(f) ==
    IF f = "create_label" THEN {}
    ELSE IF f = "create_overlay" THEN {"label"}
    ELSE IF f = "create_merged" THEN {"label", "overlay"}
    ELSE {"label", "overlay", "merged"}

\* Lines 213 and 253-259: the finally clause unlinks the three files, and it
\* guards only what follows the three creations.
TempFilesLeft(f) == IF f \in CreateFaults THEN TempFilesCreated(f) ELSE {}

\* note = f"FROM: {sender_name} . {sender_addr}", drawn up to 100 characters.
Note(to_json) == [text |-> <<"FROM: ", SenderName(to_json), SenderAddr(to_json)>>, upto |-> 100]

\* PdfReader raises on bytes that are no PDF document.
IsPdf(bytes) == bytes.format = "PDF"

\* Lines 229-236: the overlay merged onto the label's first page.
Merged(label, note) == [format |-> "PDF", content |-> label.content, overlay |-> note]

\* Lines 213-252: what the handler returns from the composition.
ComposeResponse(f, label, req) ==
    IF f \in CreateFaults THEN ErrorResponse(500, <<"OSError: ", f>>)
    ELSE IF f = "write_label" THEN ErrorResponse(500, <<"OSError: ", f>>)
    ELSE IF f = "render_overlay" THEN ErrorResponse(500, <<"OSError: ", f>>)
    ELSE IF ~IsPdf(label) THEN ErrorResponse(500, <<"PdfReadError">>)
    ELSE IF f = "write_merged" THEN ErrorResponse(500, <<"OSError: ", f>>)
    ELSE IF Get(req.args, "json", "") = "1"
    THEN [status |-> 200, kind |-> "json",
          body |-> [ok |-> TRUE, tracking |-> tracking, format |-> Fmt(req.body),
                    label_base64 |-> b64encode(Merged(label, Note(req.body.to.v)))]]
    ELSE [status |-> 200, kind |-> "file",
          data |-> Merged(label, Note(req.body.to.v)),
          mimetype |-> IF Fmt(req.body) = "PDF" THEN "application/pdf" ELSE "image/gif",
          download_name |-> IF Fmt(req.body) = "PDF" THEN "return-label.pdf"
                            ELSE "return-label.gif"]

(***************************************************************************)
(* The state machine.                                                      *)
(***************************************************************************)
Init ==
    /\ SHIPPER_NO \in ShipperValues
    /\ PROMO_CODE \in PromoValues
    /\ now = 0
    /\ issued = <<>>
    /\ pc = "idle"
    /\ route = "none"
    /\ request = NoRequest
    /\ ship_request = NoShipRequest
    /\ netlog = <<>>
    /\ carrier = NoHttp
    /\ label_pdf = NoBytes
    /\ tracking = ""
    /\ fault = "none"
    /\ created = {}
    /\ tmp_files = {}
    /\ response = NoResponse

\* Time passes between requests.
Tick ==
    /\ pc = "idle"
    /\ now < MaxTime
    /\ now' = now + 1
    /\ UNCHANGED <<SHIPPER_NO, PROMO_CODE, issued, pc, route, request, ship_request,
                   netlog, carrier, label_pdf, tracking, fault, created, tmp_files,
                   response>>

\* GET /token-test, lines 76-82.
token_test ==
    /\ pc = "idle"
    /\ Len(issued) < MaxIssued
    /\ \E r \in IdentityResponses :
        /\ get_token(r)
        /\ response' =
               IF GetTokenResult(r).raised
               THEN ErrorResponse(500, GetTokenResult(r).error)
               ELSE [status |-> 200, kind |-> "json",
                     body |-> [ok |-> TRUE, ttl |-> GetTokenResult(r).ttl,
                               preview |-> <<GetTokenResult(r).tok, "[:24]", "...">>,
                               env |-> UPS_ENV]]
    /\ route' = "token-test"
    /\ pc' = "done"
    /\ UNCHANGED <<SHIPPER_NO, PROMO_CODE, now, request, ship_request, carrier,
                   label_pdf, tracking, fault, created, tmp_files>>

\* POST /labels/create, lines 105-192: validation and the shipment request.
create_label ==
    /\ pc = "idle"
    /\ Len(issued) < MaxIssued
    /\ \E req \in Requests :
        /\ request' = req
        /\ IF "to" \notin DOMAIN req.body
           THEN /\ response' = ErrorResponse(400, <<"Missing 'to' address">>)
                /\ pc' = "done"
                /\ UNCHANGED ship_request
           ELSE IF SHIPPER_NO = ""
           THEN /\ response' = ErrorResponse(500, <<"Missing UPS_SHIPPER_NUMBER env">>)
                /\ pc' = "done"
                /\ UNCHANGED ship_request
           ELSE IF req.body.to.t # "dict"
           THEN /\ response' = ErrorResponse(500, <<"'", req.body.to.t,
                                                    "' object has no attribute 'get'">>)
                /\ pc' = "done"
                /\ UNCHANGED ship_request
           ELSE /\ ship_request' = BuildShipRequest(req.body, SHIPPER_NO, PROMO_CODE)
                /\ pc' = "auth"
                /\ UNCHANGED response
    /\ route' = "labels"
    /\ UNCHANGED <<SHIPPER_NO, PROMO_CODE, now, issued, netlog, carrier, label_pdf,
                   tracking, fault, created, tmp_files>>

\* ups_headers(), lines 61-69, evaluated as an argument of line 195.
ups_headers ==
    /\ pc = "auth"
    /\ \E r \in IdentityResponses :
        /\ get_token(r)
        /\ IF GetTokenResult(r).raised
           THEN /\ response' = ErrorResponse(500, GetTokenResult(r).error)
                /\ pc' = "done"
           ELSE /\ pc' = "ship"
                /\ UNCHANGED response
    /\ UNCHANGED <<SHIPPER_NO, PROMO_CODE, now, route, request, ship_request, carrier,
                   label_pdf, tracking, fault, created, tmp_files>>

\* Lines 195-207: the shipment call, the status check, the normalisation.
ship ==
    /\ pc = "ship"
    /\ \E r \in CarrierResponses(ship_request) :
        /\ post_ship(r)
        /\ carrier' = r
        /\ IF r.transport # "ok"
           THEN /\ response' = ErrorResponse(500, <<"ReadTimeout">>)
                /\ pc' = "done"
                /\ UNCHANGED <<label_pdf, tracking>>
           ELSE IF CarrierRejected(r.status)
           THEN /\ response' = [status |-> r.status, kind |-> "json",
                                body |-> [ok |-> FALSE, status |-> r.status,
                                          error |-> r.text]]
                /\ pc' = "done"
                /\ UNCHANGED <<label_pdf, tracking>>
           ELSE IF Extract(r.json).raised
           THEN /\ response' = ErrorResponse(500, Extract(r.json).error)
                /\ pc' = "done"
                /\ UNCHANGED <<label_pdf, tracking>>
           ELSE /\ label_pdf' = b64decode(Extract(r.json).label_b64)
                /\ tracking' = Extract(r.json).tracking
                /\ pc' = "compose"
                /\ UNCHANGED response
    /\ UNCHANGED <<SHIPPER_NO, PROMO_CODE, now, issued, route, request, ship_request,
                   fault, created, tmp_files>>

\* Lines 209-259: the temporary files, the overlay, the answer, the cleanup.
compose ==
    /\ pc = "compose"
    /\ \E f \in Faults :
        /\ fault' = f
        /\ created' = TempFilesCreated(f)
        /\ tmp_files' = TempFilesLeft(f)
        /\ response' = ComposeResponse(f, label_pdf, request)
    /\ pc' = "done"
    /\ UNCHANGED <<SHIPPER_NO, PROMO_CODE, now, issued, route, request, ship_request,
                   netlog, carrier, label_pdf, tracking>>

\* The answer has left; the handler's locals are gone.
finish ==
    /\ pc = "done"
    /\ pc' = "idle"
    /\ route' = "none"
    /\ request' = NoRequest
    /\ ship_request' = NoShipRequest
    /\ netlog' = <<>>
    /\ carrier' = NoHttp
    /\ label_pdf' = NoBytes
    /\ tracking' = ""
    /\ fault' = "none"
    /\ created' = {}
    /\ tmp_files' = {}
    /\ response' = NoResponse
    /\ UNCHANGED <<SHIPPER_NO, PROMO_CODE, now, issued>>

Next == Tick \/ token_test \/ create_label \/ ups_headers \/ ship \/ compose \/ finish

Spec == Init /\ [][Next]_vars

(***************************************************************************)
(* Properties.                                                             *)
(***************************************************************************)
\* A step in which a handler asks for a bearer token: ups_headers in
\* /labels/create, or /token-test.
TokenCallStep == (pc = "auth" /\ pc' # "auth") \/ (pc = "idle" /\ route' = "token-test")

LastIssued == issued[Len(issued)]

CallsTo(to) == {i \in 1..Len(netlog) : netlog[i].to = to}

\* C2: a /labels/create request issues at most one identity exchange and at
\* most one shipment call, the exchange first; a call that fails is the
\* request's last call, and the request has ended with a failure answer.
C2_NoRetry ==
    route = "labels" =>
        /\ Cardinality(CallsTo("identity")) <= 1
        /\ Cardinality(CallsTo("ship")) <= 1
        /\ Len(netlog) = Cardinality(CallsTo("identity")) + Cardinality(CallsTo("ship"))
        /\ \A i \in CallsTo("ship") : \E j \in CallsTo("identity") : j < i
        /\ \A i \in 1..Len(netlog) :
              ~netlog[i].ok =>
                  /\ i = Len(netlog)
                  /\ pc = "done"
                  /\ response.status >= 300
                  /\ ~response.body.ok

\* The shipment call failed after a successful identity exchange.
C2_Witness ==
    /\ route = "labels"
    /\ pc = "done"
    /\ Len(netlog) = 2
    /\ netlog[1].ok
    /\ ~netlog[2].ok

\* C3: when a /labels/create request returns, none of the temporary files it
\* created is left on disk.
C3_TempFilesReleased == pc = "done" => tmp_files = {}

\* C4: a carrier status >= 300 is answered with that status and the body
\* {ok:false, status, error}; nothing is decoded and no temporary file is made.
C4_CarrierStatusPassThrough ==
    (pc = "done" /\ carrier.transport = "ok" /\ carrier.status >= 300) =>
        /\ response = [status |-> carrier.status, kind |-> "json",
                       body |-> [ok |-> FALSE, status |-> carrier.status,
                                 error |-> carrier.text]]
        /\ label_pdf = NoBytes
        /\ created = {}
        /\ tmp_files = {}

\* The carrier answered 300, the lowest status that is passed through.
C4_Witness == pc = "done" /\ carrier.transport = "ok" /\ carrier.status = 300

\* C5: when the identity endpoint answers the exchange of a /labels/create
\* request with a status >= 300, the request is answered 500 with
\* {ok:false, error}, the error text holds that status, and no shipment call
\* is issued.
C5_TokenFailure ==
    (route = "labels" /\ netlog # <<>> /\ netlog[1].to = "identity"
        /\ netlog[1].status >= 300) =>
        /\ pc = "done"
        /\ response.status = 500
        /\ response.kind = "json"
        /\ DOMAIN response.body = {"ok", "error"}
        /\ ~response.body.ok
        /\ \E k \in 1..Len(response.body.error) :
              response.body.error[k] = ToString(netlog[1].status)
        /\ CallsTo("ship") = {}

\* A /labels/create request whose identity exchange was answered 401.
C5_Witness ==
    /\ route = "labels"
    /\ pc = "done"
    /\ netlog # <<>>
    /\ netlog[1].to = "identity"
    /\ netlog[1].status = 401

\* C6: a missing `to` is answered 400 with {ok:false, error:"Missing 'to'
\* address"}, and a `to` that is no address object is answered 400, both before
\* any identity or carrier call; a missing shipper number is answered 500.
C6_MissingOrInvalidTo ==
    (pc = "done" /\ route = "labels") =>
        /\ "to" \notin DOMAIN request.body =>
              /\ response = ErrorResponse(400, <<"Missing 'to' address">>)
              /\ netlog = <<>>
        /\ ("to" \in DOMAIN request.body /\ request.body.to.t # "dict"
               /\ SHIPPER_NO # "") =>
              /\ response.status = 400
              /\ netlog = <<>>
        /\ ("to" \in DOMAIN request.body /\ SHIPPER_NO = "") => response.status = 500

\* The body with its mode set to m.
WithMode(body, m) == [mode |-> m] @@ body

BuiltFor(m) == BuildShipRequest(WithMode(request.body, m), SHIPPER_NO, PROMO_CODE)

\* The shipment request without its two parties.
Rest(sr) ==
    [k \in DOMAIN sr.ShipmentRequest.Shipment \ {"ShipFrom", "ShipTo"} |->
        sr.ShipmentRequest.Shipment[k]]

C8_GifPassThrough ==
    (pc = "done" /\ route = "labels" /\ label_pdf # NoBytes /\ fault = "none"
        /\ Fmt(request.body) = "GIF") =>
        /\ response.status = 200
        /\ \/ response.kind = "file" /\ response.data = label_pdf
           \/ response.kind = "json" /\ b64decode(response.body.label_base64) = label_pdf

RefsOf(sr) == sr.ShipmentRequest.Shipment.Package.ReferenceNumber

\* C9: every ReferenceNumber value of the request holds only letters, digits,
\* space, hyphen, period, underscore and slash and at most 35 characters, and
\* the first (PO) value is not empty when the caller supplied a sender name
\* that is not empty.
C9_ReferencesClean ==
    ship_request # NoShipRequest =>
        /\ \A i \in 1..Len(RefsOf(ship_request)) :
              /\ \A k \in 1..Len(RefsOf(ship_request)[i].Value) :
                    RefsOf(ship_request)[i].Value[k] \in RefAllowedChars
              /\ Len(RefsOf(ship_request)[i].Value) <= 35
        /\ RefsOf(ship_request)[1].Code = "PO"
        /\ Get(request.body.to.v, "name", <<>>) # <<>> =>
              RefsOf(ship_request)[1].Value # <<>>

PackageResultsOf(http) == http.json.ShipmentResponse.ShipmentResults.PackageResults

FirstPackage(pr) == IF pr.t = "list" THEN Head(pr.items) ELSE pr

\* C10: the tracking number and the label extracted from a successful answer
\* are those of the first package, and they are the same for that package
\* alone and for a one-element list holding it.
C10_FirstPackage ==
    (pc \in {"compose", "done"} /\ label_pdf # NoBytes) =>
        LET first == FirstPackage(PackageResultsOf(carrier))
        IN  /\ label_pdf = b64decode(first.v.ShippingLabel.GraphicImage)
            /\ tracking = Get(first.v, "TrackingNumber", "")
            /\ Extract(ShipmentJson([PackageResults |-> first]))
                   = Extract(ShipmentJson([PackageResults |-> List(<<first>>)]))
            /\ Extract(ShipmentJson([PackageResults |-> first]))
                   = [raised |-> FALSE,
                      label_b64 |-> first.v.ShippingLabel.GraphicImage,
                      tracking |-> tracking]

\* The carrier answered with a list of two packages, and the label was taken.
C10_Witness ==
    /\ pc = "compose"
    /\ label_pdf # NoBytes
    /\ PackageResultsOf(carrier).t = "list"
    /\ Len(PackageResultsOf(carrier).items) = 2

====
